---- MODULE Spec2Model ----
(***************************************************************************)
(* CivicWatch chunk-then-map-reduce summarization pipeline                 *)
(* (src/civicwatch): TextChunker, MapSummarizer, ReduceSummarizer and      *)
(* SummarizationPipeline over the on-disk caches.                          *)
(*                                                                         *)
(* Text is a sequence of one-character strings.  An optional value         *)
(* (Python's None or a value) is a sequence of length at most one.         *)
(***************************************************************************)
EXTENDS Integers, Sequences, FiniteSets, TLC

----------------------------------------------------------------------------
(* Bounds of the model *)

\* the most paragraphs of a text handed to TextChunker.chunk directly
MaxParagraphs == 3
\* chunk_size of the TextChunker under test, in characters
ChunkSize == 4
\* overlap ratio of the TextChunker under test, in percent
OverlapPct == 50

----------------------------------------------------------------------------
(* Text *)

NL == "\n"
Whitespace == {" ", NL}

None == <<>>
Some(v) == <<v>>

\* Python truthiness of an Optional[str]: None and "" are falsy
Truthy(o) == o # None /\ o[1] # <<>>

RECURSIVE lstrip(_)
lstrip(s) ==
    IF s = <<>> THEN s
    ELSE IF Head(s) \in Whitespace THEN lstrip(Tail(s)) ELSE s

RECURSIVE rstrip(_)
rstrip(s) ==
    IF s = <<>> THEN s
    ELSE IF s[Len(s)] \in Whitespace THEN rstrip(SubSeq(s, 1, Len(s) - 1)) ELSE s

\* str.strip()
strip(s) == rstrip(lstrip(s))

\* str.split("\n\n"): left to right, non-overlapping; cur is the piece so far
RECURSIVE split(_, _)
split(s, cur) ==
    IF s = <<>> THEN <<cur>>
    ELSE IF Len(s) >= 2 /\ s[1] = NL /\ s[2] = NL
         THEN <<cur>> \o split(SubSeq(s, 3, Len(s)), <<>>)
         ELSE split(Tail(s), Append(cur, Head(s)))

\* (the slice taking the whole of s)
lastChars_whole(s, n) == s

\* s[-n:] for n > 0
lastChars(s, n) == IF n >= Len(s) THEN s ELSE SubSeq(s, Len(s) - n + 1, Len(s))

\* re.sub(r'\s+', ' ', text): every run of whitespace becomes one space
RECURSIVE collapse(_, _)
collapse(s, inRun) ==
    IF s = <<>> THEN <<>>
    ELSE IF Head(s) \in Whitespace
         THEN (IF inRun THEN <<>> ELSE <<" ">>) \o collapse(Tail(s), TRUE)
         ELSE <<Head(s)>> \o collapse(Tail(s), FALSE)

\* (_clean_text without the re.sub: the text only trimmed)
clean_text_trim_only(text) == strip(text)

\* Normalizer._clean_text
clean_text(text) == IF text = <<>> THEN <<>> ELSE strip(collapse(text, FALSE))

----------------------------------------------------------------------------
(* TextChunker *)

\* TextChunker.__init__: overlap_size = int(chunk_size * overlap)
overlap_size == (ChunkSize * OverlapPct) \div 100

\* (closing a chunk without "chunk_index += 1")
append_chunk_same_index(doc_id, st) ==
    [st EXCEPT !.chunks = Append(@, [parent_id   |-> doc_id,
                                     chunk_index |-> st.chunk_index,
                                     text        |-> strip(st.current)])]

\* chunks.append({parent_id, chunk_index, text: current_chunk.strip()});
\* chunk_index += 1
append_chunk(doc_id, st) ==
    [st EXCEPT !.chunks = Append(@, [parent_id   |-> doc_id,
                                     chunk_index |-> st.chunk_index,
                                     text        |-> strip(st.current)]),
               !.chunk_index = @ + 1]

\* (a new chunk started without the overlap)
start_chunk_no_overlap(current_chunk, para) == para

\* "Start new chunk with overlap": the new current_chunk
start_chunk(current_chunk, para) ==
    IF overlap_size > 0
    THEN lastChars(current_chunk, overlap_size) \o <<NL, NL>> \o para
    ELSE para

\* (the paragraph put in place of the buffer)
add_paragraph_replacing(current_chunk, para) == para

\* "Add paragraph to current chunk": the new current_chunk
add_paragraph(current_chunk, para) ==
    IF current_chunk # <<>>
    THEN current_chunk \o <<NL, NL>> \o para
    ELSE para

\* (the buffer closed as soon as the paragraph would fill it to chunk_size)
chunk_step_eager(doc_id, st, rawpara) ==
    LET para == strip(rawpara) IN
    IF para = <<>> THEN st
    ELSE IF Len(st.current) + Len(para) + 2 >= ChunkSize /\ st.current # <<>>
         THEN [append_chunk(doc_id, st) EXCEPT !.current = start_chunk(st.current, para)]
         ELSE [st EXCEPT !.current = add_paragraph(@, para)]

\* One pass of the paragraph loop of TextChunker.chunk;
\* st = [chunks, current, chunk_index]
chunk_step(doc_id, st, rawpara) ==
    LET para == strip(rawpara) IN
    IF para = <<>> THEN st
    ELSE IF Len(st.current) + Len(para) + 2 > ChunkSize /\ st.current # <<>>
         THEN [append_chunk(doc_id, st) EXCEPT !.current = start_chunk(st.current, para)]
         ELSE [st EXCEPT !.current = add_paragraph(@, para)]

RECURSIVE chunk_loop(_, _, _)
chunk_loop(doc_id, st, paragraphs) ==
    IF paragraphs = <<>> THEN st
    ELSE chunk_loop(doc_id, chunk_step(doc_id, st, Head(paragraphs)), Tail(paragraphs))

\* (the list without "if not chunks and text: chunks.append(...)")
chunk_list_no_fallback(doc_id, text) ==
    LET st == chunk_loop(doc_id,
                         [chunks |-> <<>>, current |-> <<>>, chunk_index |-> 0],
                         split(text, <<>>))
    IN  IF strip(st.current) # <<>>
        THEN append_chunk(doc_id, st).chunks
        ELSE st.chunks

\* TextChunker.chunk up to the point where the chunks are saved: the list it builds
chunk_list(doc_id, text) ==
    LET st     == chunk_loop(doc_id,
                             [chunks |-> <<>>, current |-> <<>>, chunk_index |-> 0],
                             split(text, <<>>))
        closed == IF strip(st.current) # <<>>
                  THEN append_chunk(doc_id, st).chunks
                  ELSE st.chunks
    IN  IF closed = <<>> /\ text # <<>>
        THEN <<[parent_id |-> doc_id, chunk_index |-> 0, text |-> strip(text)]>>
        ELSE closed

----------------------------------------------------------------------------
(* The oracle (self.llm.invoke) and the cache files *)

\* What the oracle can answer with: text with or without surrounding whitespace,
\* or nothing but whitespace
Responses == { <<"x">>, <<" ", "y", NL>>, <<" ">> }

\* One oracle invocation either raises or returns a response
Outcomes == {[raises |-> TRUE, text |-> <<>>]} \cup
            {[raises |-> FALSE, text |-> r] : r \in Responses}

\* A JSON cache file: absent, holding {"summary": ...}, or present but unparseable
NoFile == [exists |-> FALSE, ok |-> FALSE, summary |-> <<>>]
GoodFile(s) == [exists |-> TRUE, ok |-> TRUE, summary |-> s]
TornFile == [exists |-> TRUE, ok |-> FALSE, summary |-> <<>>]

\* How one open(filepath, "w") + json.dump can end: written; open() refused (the
\* old file stays); or the file truncated and the write cut short
WriteResults(mode) == IF mode = "reliable" THEN {"ok"} ELSE {"ok", "denied", "torn"}

\* (open(filepath, "x"): an existing file makes the write fail)
write_file_exclusive(old, new, torn, w) ==
    IF old.exists THEN [raised |-> TRUE, file |-> old]
    ELSE CASE w = "ok"     -> [raised |-> FALSE, file |-> new]
           [] w = "denied" -> [raised |-> TRUE,  file |-> old]
           [] OTHER        -> [raised |-> TRUE,  file |-> torn]

\* (a write that fails only after the data is on disk)
write_file_late_failure(old, new, torn, w) ==
    [raised |-> w # "ok", file |-> new]

\* with open(filepath, "w") as f: json.dump(data, f)
write_file(old, new, torn, w) ==
    CASE w = "ok"     -> [raised |-> FALSE, file |-> new]
      [] w = "denied" -> [raised |-> TRUE,  file |-> old]
      [] OTHER        -> [raised |-> TRUE,  file |-> torn]

\* filepath.exists() / json.load / data.get("summary", ""), errors logged and dropped
load_file(f) == IF f.exists /\ f.ok THEN Some(f.summary) ELSE None

----------------------------------------------------------------------------
(* MapSummarizer *)

\* (a cache lookup that never finds the file)
map_load_cached_summary_never(mc, parent_id, chunk_index) == None

\* MapSummarizer._load_cached_summary
map_load_cached_summary(mc, parent_id, chunk_index) ==
    load_file(mc[<<parent_id, chunk_index>>])

\* (a save that writes nothing)
map_save_summary_skip(mc, parent_id, chunk_index, summary, w) ==
    [raised |-> FALSE, cache |-> mc]

\* MapSummarizer._save_summary
map_save_summary(mc, parent_id, chunk_index, summary, w) ==
    LET k  == <<parent_id, chunk_index>>
        wr == write_file(mc[k], GoodFile(summary), TornFile, w)
    IN  [raised |-> wr.raised, cache |-> [mc EXCEPT ![k] = wr.file]]

\* (summarize_chunk invoking the oracle a second time when it raises)
summarize_chunk_retry(mc, chunk, force_rerun, o, w) ==
    LET parent_id   == chunk.parent_id
        chunk_index == chunk.chunk_index
        cached      == map_load_cached_summary(mc, parent_id, chunk_index)
        evLoad      == IF force_rerun THEN <<>>
                       ELSE <<[ev |-> "load_map", doc |-> parent_id, idx |-> chunk_index]>>
        evOracle    == <<[ev |-> "oracle_map", doc |-> parent_id, idx |-> chunk_index,
                          text |-> chunk.text, raises |-> o.raises, response |-> o.text]>>
    IN  IF ~force_rerun /\ Truthy(cached)
        THEN [ret |-> cached, cache |-> mc, events |-> evLoad]
        ELSE IF o.raises
             THEN [ret |-> None, cache |-> mc, events |-> evLoad \o evOracle \o evOracle]
             ELSE LET summary == strip(o.text)
                      sv      == map_save_summary(mc, parent_id, chunk_index, summary, w)
                      evSave  == <<[ev |-> "save_map", doc |-> parent_id,
                                    idx |-> chunk_index, raised |-> sv.raised]>>
                  IN  [ret    |-> IF sv.raised THEN None ELSE Some(summary),
                       cache  |-> sv.cache,
                       events |-> evLoad \o evOracle \o evSave]

\* (summarize_chunk looking in the cache only for a chunk that has text)
summarize_chunk_text_checked(mc, chunk, force_rerun, o, w) ==
    LET parent_id   == chunk.parent_id
        chunk_index == chunk.chunk_index
        cached      == map_load_cached_summary(mc, parent_id, chunk_index)
        evLoad      == IF force_rerun THEN <<>>
                       ELSE <<[ev |-> "load_map", doc |-> parent_id, idx |-> chunk_index]>>
        evOracle    == <<[ev |-> "oracle_map", doc |-> parent_id, idx |-> chunk_index,
                          text |-> chunk.text, raises |-> o.raises, response |-> o.text]>>
    IN  IF ~force_rerun /\ chunk.text # <<>> /\ Truthy(cached)
        THEN [ret |-> cached, cache |-> mc, events |-> evLoad]
        ELSE IF o.raises
             THEN [ret |-> None, cache |-> mc, events |-> evLoad \o evOracle]
             ELSE LET summary == strip(o.text)
                      sv      == map_save_summary(mc, parent_id, chunk_index, summary, w)
                      evSave  == <<[ev |-> "save_map", doc |-> parent_id,
                                    idx |-> chunk_index, raised |-> sv.raised]>>
                  IN  [ret    |-> IF sv.raised THEN None ELSE Some(summary),
                       cache  |-> sv.cache,
                       events |-> evLoad \o evOracle \o evSave]

\* (summarize_chunk with the error of _save_summary logged and dropped)
summarize_chunk_save_unchecked(mc, chunk, force_rerun, o, w) ==
    LET parent_id   == chunk.parent_id
        chunk_index == chunk.chunk_index
        cached      == map_load_cached_summary(mc, parent_id, chunk_index)
        evLoad      == IF force_rerun THEN <<>>
                       ELSE <<[ev |-> "load_map", doc |-> parent_id, idx |-> chunk_index]>>
        evOracle    == <<[ev |-> "oracle_map", doc |-> parent_id, idx |-> chunk_index,
                          text |-> chunk.text, raises |-> o.raises, response |-> o.text]>>
    IN  IF ~force_rerun /\ Truthy(cached)
        THEN [ret |-> cached, cache |-> mc, events |-> evLoad]
        ELSE IF o.raises
             THEN [ret |-> None, cache |-> mc, events |-> evLoad \o evOracle]
             ELSE LET summary == strip(o.text)
                      sv      == map_save_summary(mc, parent_id, chunk_index, summary, w)
                      evSave  == <<[ev |-> "save_map", doc |-> parent_id,
                                    idx |-> chunk_index, raised |-> sv.raised]>>
                  IN  [ret    |-> Some(summary),
                       cache  |-> sv.cache,
                       events |-> evLoad \o evOracle \o evSave]

\* MapSummarizer.summarize_chunk; o is what the oracle does if invoked, w what the
\* cache write does if attempted
summarize_chunk(mc, chunk, force_rerun, o, w) ==
    LET parent_id   == chunk.parent_id
        chunk_index == chunk.chunk_index
        cached      == map_load_cached_summary(mc, parent_id, chunk_index)
        evLoad      == IF force_rerun THEN <<>>
                       ELSE <<[ev |-> "load_map", doc |-> parent_id, idx |-> chunk_index]>>
        evOracle    == <<[ev |-> "oracle_map", doc |-> parent_id, idx |-> chunk_index,
                          text |-> chunk.text, raises |-> o.raises, response |-> o.text]>>
    IN  IF ~force_rerun /\ Truthy(cached)
        THEN [ret |-> cached, cache |-> mc, events |-> evLoad]
        ELSE IF o.raises
             THEN [ret |-> None, cache |-> mc, events |-> evLoad \o evOracle]
             ELSE LET summary == strip(o.text)
                      sv      == map_save_summary(mc, parent_id, chunk_index, summary, w)
                      evSave  == <<[ev |-> "save_map", doc |-> parent_id,
                                    idx |-> chunk_index, raised |-> sv.raised]>>
                  IN  [ret    |-> IF sv.raised THEN None ELSE Some(summary),
                       cache  |-> sv.cache,
                       events |-> evLoad \o evOracle \o evSave]

\* (the loop body putting each summary in front of the earlier ones)
collect_front(summaries, chunk, summary_text) ==
    IF Truthy(summary_text)
    THEN <<[parent_id   |-> chunk.parent_id,
            chunk_index |-> chunk.chunk_index,
            summary     |-> summary_text[1]]>> \o summaries
    ELSE summaries

\* (the loop body with the test "if summary_text is not None")
collect_not_none(summaries, chunk, summary_text) ==
    IF summary_text # None
    THEN Append(summaries, [parent_id   |-> chunk.parent_id,
                            chunk_index |-> chunk.chunk_index,
                            summary     |-> summary_text[1]])
    ELSE summaries

\* The body of the for loop of MapSummarizer.summarize_chunks:
\* "if summary_text: summaries.append({...})"
collect(summaries, chunk, summary_text) ==
    IF Truthy(summary_text)
    THEN Append(summaries, [parent_id   |-> chunk.parent_id,
                            chunk_index |-> chunk.chunk_index,
                            summary     |-> summary_text[1]])
    ELSE summaries

----------------------------------------------------------------------------
(* ReduceSummarizer *)

\* (a cache lookup that never finds the file)
reduce_load_cached_summary_never(rc, doc_id) == None

\* ReduceSummarizer._load_cached_summary
reduce_load_cached_summary(rc, doc_id) == load_file(rc[doc_id])

\* (a save that leaves an existing file alone)
reduce_save_summary_keep(rc, doc_id, summary, w) ==
    LET wr == write_file(rc[doc_id], GoodFile(summary), TornFile, w)
    IN  [raised |-> wr.raised,
         cache  |-> IF rc[doc_id].exists THEN rc ELSE [rc EXCEPT ![doc_id] = wr.file]]

\* ReduceSummarizer._save_summary
reduce_save_summary(rc, doc_id, summary, w) ==
    LET wr == write_file(rc[doc_id], GoodFile(summary), TornFile, w)
    IN  [raised |-> wr.raised, cache |-> [rc EXCEPT ![doc_id] = wr.file]]

\* (the labels counted from 0)
numbered_from_zero(chunk_summaries) ==
    [j \in 1..Len(chunk_summaries) |-> [label |-> j - 1, text |-> chunk_summaries[j]]]

\* [f"Chunk {i+1}: {s}" for i, s in enumerate(chunk_summaries)]
numbered(chunk_summaries) ==
    [j \in 1..Len(chunk_summaries) |-> [label |-> (j - 1) + 1, text |-> chunk_summaries[j]]]

\* (reduce without its "if not chunk_summaries: return None")
reduce_no_empty_check(rc, doc_id, title, chunk_summaries, force_rerun, o, w) ==
    LET cached   == reduce_load_cached_summary(rc, doc_id)
        evLoad   == IF force_rerun THEN <<>> ELSE <<[ev |-> "load_final", doc |-> doc_id]>>
        evOracle == <<[ev |-> "oracle_reduce", doc |-> doc_id, title |-> title,
                       summaries |-> numbered(chunk_summaries),
                       raises |-> o.raises, response |-> o.text]>>
    IN  IF ~force_rerun /\ Truthy(cached)
        THEN [ret |-> cached, cache |-> rc, events |-> evLoad]
        ELSE IF o.raises
             THEN [ret |-> None, cache |-> rc, events |-> evLoad \o evOracle]
             ELSE LET final_summary == strip(o.text)
                      sv == reduce_save_summary(rc, doc_id, final_summary, w)
                      evSave == <<[ev |-> "save_final", doc |-> doc_id,
                                   raised |-> sv.raised]>>
                  IN  [ret    |-> IF sv.raised THEN None ELSE Some(final_summary),
                       cache  |-> sv.cache,
                       events |-> evLoad \o evOracle \o evSave]

\* (reduce removing the cached file before it regenerates the summary)
reduce_unlink_first(rc, doc_id, title, chunk_summaries, force_rerun, o, w) ==
    LET cached   == reduce_load_cached_summary(rc, doc_id)
        evLoad   == IF force_rerun THEN <<>> ELSE <<[ev |-> "load_final", doc |-> doc_id]>>
        evOracle == <<[ev |-> "oracle_reduce", doc |-> doc_id, title |-> title,
                       summaries |-> numbered(chunk_summaries),
                       raises |-> o.raises, response |-> o.text]>>
        unlinked == [rc EXCEPT ![doc_id] = NoFile]
    IN  IF chunk_summaries = <<>>
        THEN [ret |-> None, cache |-> rc, events |-> <<>>]
        ELSE IF ~force_rerun /\ Truthy(cached)
        THEN [ret |-> cached, cache |-> rc, events |-> evLoad]
        ELSE IF o.raises
             THEN [ret |-> None, cache |-> unlinked, events |-> evLoad \o evOracle]
             ELSE LET final_summary == strip(o.text)
                      sv == reduce_save_summary(unlinked, doc_id, final_summary, w)
                      evSave == <<[ev |-> "save_final", doc |-> doc_id,
                                   raised |-> sv.raised]>>
                  IN  [ret    |-> IF sv.raised THEN None ELSE Some(final_summary),
                       cache  |-> sv.cache,
                       events |-> evLoad \o evOracle \o evSave]

\* ReduceSummarizer.reduce
reduce(rc, doc_id, title, chunk_summaries, force_rerun, o, w) ==
    LET cached   == reduce_load_cached_summary(rc, doc_id)
        evLoad   == IF force_rerun THEN <<>> ELSE <<[ev |-> "load_final", doc |-> doc_id]>>
        evOracle == <<[ev |-> "oracle_reduce", doc |-> doc_id, title |-> title,
                       summaries |-> numbered(chunk_summaries),
                       raises |-> o.raises, response |-> o.text]>>
    IN  IF chunk_summaries = <<>>
        THEN [ret |-> None, cache |-> rc, events |-> <<>>]
        ELSE IF ~force_rerun /\ Truthy(cached)
        THEN [ret |-> cached, cache |-> rc, events |-> evLoad]
        ELSE IF o.raises
             THEN [ret |-> None, cache |-> rc, events |-> evLoad \o evOracle]
             ELSE LET final_summary == strip(o.text)
                      sv == reduce_save_summary(rc, doc_id, final_summary, w)
                      evSave == <<[ev |-> "save_final", doc |-> doc_id,
                                   raised |-> sv.raised]>>
                  IN  [ret    |-> IF sv.raised THEN None ELSE Some(final_summary),
                       cache  |-> sv.cache,
                       events |-> evLoad \o evOracle \o evSave]

----------------------------------------------------------------------------
(* Documents, Normalizer, chunk storage *)

\* What the scraper hands over (BaseScraper.scrape: title, text, source_url; no
\* date): a two-paragraph page and an empty page
RawDocs ==
    { [source_url |-> "u1", title |-> <<"t">>, text |-> <<"a", "a", NL, NL, "b", "b">>],
      [source_url |-> "u2", title |-> <<"t">>, text |-> <<>>] }

\* Normalizer._generate_id: "doc_" + sha256(url|title|date)[:16], taken as
\* collision-free
generate_id(source_url, title, date) == <<"doc", source_url, title, date>>

\* The normalizer the pipeline was built with (SummarizationPipeline.__init__):
\* the default Normalizer, or an injected one that keeps the text as scraped
NormalizerKinds == {"default", "verbatim"}

\* Normalizer.normalize, the fields the pipeline reads; a missing date normalizes
\* to "" (_normalize_date)
normalize(kind, raw_data) ==
    LET title == clean_text(raw_data.title)
        text  == IF kind = "default" THEN clean_text(raw_data.text) ELSE raw_data.text
    IN  [id    |-> generate_id(raw_data.source_url, title, ""),
         title |-> title,
         text  |-> text]

\* A chunk-set file: absent, holding a chunk list, or unparseable
NoChunks == [exists |-> FALSE, ok |-> FALSE, chunks |-> <<>>]
TornChunks == [exists |-> TRUE, ok |-> FALSE, chunks |-> <<>>]

\* TextChunker._save_chunks
save_chunks(cs, doc_id, chunks, w) ==
    LET wr == write_file(cs[doc_id], [exists |-> TRUE, ok |-> TRUE, chunks |-> chunks],
                         TornChunks, w)
    IN  [raised |-> wr.raised, store |-> [cs EXCEPT ![doc_id] = wr.file]]

\* (chunk answering from the stored chunk set when there is one)
chunk_from_storage(cs, doc_id, text, w) ==
    IF text = <<>>
    THEN [ret |-> <<>>, raised |-> FALSE, store |-> cs, events |-> <<>>]
    ELSE IF cs[doc_id].exists /\ cs[doc_id].ok
    THEN [ret |-> cs[doc_id].chunks, raised |-> FALSE, store |-> cs, events |-> <<>>]
    ELSE LET chunks == chunk_list(doc_id, text)
             sv     == save_chunks(cs, doc_id, chunks, w)
         IN  [ret    |-> IF sv.raised THEN <<>> ELSE chunks,
              raised |-> sv.raised,
              store  |-> sv.store,
              events |-> <<[ev |-> "save_chunks", doc |-> doc_id]>>]

\* (chunk without its "if not text: return []")
chunk_fallback_on_empty(cs, doc_id, text, w) ==
    LET listed == chunk_list(doc_id, text)
        chunks == IF listed = <<>>
                  THEN <<[parent_id |-> doc_id, chunk_index |-> 0, text |-> strip(text)]>>
                  ELSE listed
        sv     == save_chunks(cs, doc_id, chunks, w)
    IN  [ret    |-> IF sv.raised THEN <<>> ELSE chunks,
         raised |-> sv.raised,
         store  |-> sv.store,
         events |-> <<[ev |-> "save_chunks", doc |-> doc_id]>>]

\* TextChunker.chunk
chunk(cs, doc_id, text, w) ==
    IF text = <<>>
    THEN [ret |-> <<>>, raised |-> FALSE, store |-> cs, events |-> <<>>]
    ELSE LET chunks == chunk_list(doc_id, text)
             sv     == save_chunks(cs, doc_id, chunks, w)
         IN  [ret    |-> IF sv.raised THEN <<>> ELSE chunks,
              raised |-> sv.raised,
              store  |-> sv.store,
              events |-> <<[ev |-> "save_chunks", doc |-> doc_id]>>]

----------------------------------------------------------------------------
(* State *)

VARIABLES
    storage,      \* "reliable": every cache write succeeds; "faulty": a write may fail
    mapCache,     \* MAP_SUMMARIES_DIR: (parent_id, chunk_index) -> file
    reduceCache,  \* REDUCE_SUMMARIES_DIR: doc_id -> file
    chunkStore,   \* CHUNKS_DIR: doc_id -> file
    pc,           \* where the caller is: "idle", or inside run / summarize_chunks
    cur,          \* the call in progress or, when idle, the call that returned last:
                  \* its input, its locals, what it returned, the events it caused
    prev          \* the call before cur, kept when it was the same operation on the
                  \* same input: its force_rerun, result and number of oracle invocations

vars == <<storage, mapCache, reduceCache, chunkStore, pc, cur, prev>>

DocIds == {normalize(k, d).id : k \in NormalizerKinds, d \in RawDocs}

\* The chunk lists callers hand to summarize_chunks: the chunks of a three-paragraph
\* text and no chunks
ChunkLists ==
    { chunk_list(generate_id("u1", <<"t">>, ""), <<"a", NL, NL, "b", "b", "b", NL, NL, "c">>),
      <<>> }

\* The chunks callers hand to summarize_chunk: the last chunk of each of those
\* lists, and a chunk of another document
ChunkInputs == {cl[Len(cl)] : cl \in {l \in ChunkLists : l # <<>>}}
               \cup {[parent_id |-> generate_id("u2", <<"t">>, ""), chunk_index |-> 0,
                      text |-> <<"a", "b">>]}

\* The chunk lists the pipeline's chunker produces for the documents
PipelineChunkLists == {chunk_list(normalize(k, d).id, normalize(k, d).text) :
                           k \in NormalizerKinds, d \in RawDocs}

MapKeys == {<<c.parent_id, c.chunk_index>> : c \in ChunkInputs}
           \cup UNION {{<<cl[j].parent_id, cl[j].chunk_index>> : j \in 1..Len(cl)} :
                           cl \in ChunkLists}
           \cup UNION {{<<cl[j].parent_id, cl[j].chunk_index>> : j \in 1..Len(cl)} :
                           cl \in PipelineChunkLists}

\* The document callers hand to reduce
ReduceDocIds == {generate_id("u1", <<"t">>, "")}

\* The chunk-summary lists callers hand to reduce
SummaryLists == { <<>>, <<<<"x">>>>, <<<<"y">>, <<"x">>>> }

\* The map cache key of a chunk
keyOfChunk(c) == <<c.parent_id, c.chunk_index>>

\* The cache entries that differ between two contents of a cache directory
changedKeys(old, new) == {k \in DOMAIN old : old[k] # new[k]}

\* The oracle invocations among the events of a call
oracleEvents(events) ==
    SelectSeq(events, LAMBDA e : e.ev \in {"oracle_map", "oracle_reduce"})

\* A call as it starts
newCall(op, arg, force) ==
    [op |-> op, arg |-> arg, force |-> force, ret |-> None, raised |-> FALSE,
     events |-> <<>>, changed |-> {}, pre |-> NoFile,
     chunks |-> <<>>, i |-> 1, summaries |-> <<>>, final_summary |-> None]

NoPrev == [same |-> FALSE, force |-> FALSE, ret |-> None, oracle |-> 0, complete |-> FALSE]

\* What prev keeps of call c when the next call is op on arg
digest(c, op, arg) ==
    IF c.op = op /\ c.arg = arg
    THEN [same |-> TRUE, force |-> c.force, ret |-> c.ret,
          oracle |-> Len(oracleEvents(c.events)),
          complete |-> Len(c.summaries) = Len(c.chunks)]
    ELSE NoPrev

InitCaches ==
    /\ mapCache = [k \in MapKeys |-> NoFile]
    /\ reduceCache = [d \in DocIds |-> NoFile]
    /\ chunkStore = [d \in DocIds |-> NoChunks]
    /\ pc = "idle"
    /\ cur = newCall("none", <<>>, FALSE)
    /\ prev = NoPrev

Init == storage = "reliable" /\ InitCaches

----------------------------------------------------------------------------
(* TextChunker called directly *)

\* "\n\n".join(ps)
RECURSIVE join(_)
join(ps) ==
    IF ps = <<>> THEN <<>>
    ELSE IF Len(ps) = 1 THEN ps[1]
    ELSE ps[1] \o <<NL, NL>> \o join(Tail(ps))

\* What lies between the blank lines of the texts handed to chunk: nothing,
\* whitespace, and words short and long with and without a space inside
ParagraphPool == { <<>>, <<" ">>, <<"a">>, <<"b", "b">>, <<"a", " ", "b">> }

\* The texts callers hand to chunk: up to MaxParagraphs such pieces with blank
\* lines between them (the empty text among them)
Texts == {join(ps) : ps \in UNION {[1..k -> ParagraphPool] : k \in 1..MaxParagraphs}}

\* The document callers hand to chunk
ChunkDocId == generate_id("u1", <<"t">>, "")

\* What CHUNKS_DIR holds before: nothing, or the chunk set of an earlier text
PriorChunkStores ==
    { [d \in DocIds |-> NoChunks],
      [d \in DocIds |-> IF d = ChunkDocId
                        THEN [exists |-> TRUE, ok |-> TRUE,
                              chunks |-> chunk_list(d, <<"b", "b", NL, NL, "a", " ", "b">>)]
                        ELSE NoChunks] }

\* A caller holds a text and is about to call chunk; file writes may fail
ChunkerInit ==
    /\ storage = "faulty"
    /\ mapCache = [k \in MapKeys |-> NoFile]
    /\ reduceCache = [d \in DocIds |-> NoFile]
    /\ chunkStore \in PriorChunkStores
    /\ pc = "idle"
    /\ cur \in {newCall("input", [doc_id |-> ChunkDocId, text |-> t], FALSE) : t \in Texts}
    /\ prev = NoPrev

\* The caller invokes TextChunker.chunk on the text it holds; an exception of
\* _save_chunks reaches the caller (raised)
CallChunk ==
    /\ pc = "idle"
    /\ cur.op \in {"input", "chunk"}
    /\ \E w \in WriteResults(storage) :
        LET arg == cur.arg
            ck  == chunk(chunkStore, arg.doc_id, arg.text, w)
        IN
        /\ chunkStore' = ck.store
        /\ cur' = [newCall("chunk", arg, FALSE) EXCEPT
                      !.ret = ck.ret, !.raised = ck.raised, !.events = ck.events,
                      !.pre = chunkStore[arg.doc_id],
                      !.changed = {<<"chunks", k>> : k \in changedKeys(chunkStore, ck.store)}]
        /\ prev' = digest(cur, "chunk", arg)
    /\ UNCHANGED <<storage, mapCache, reduceCache, pc>>

----------------------------------------------------------------------------
(* MapSummarizer and ReduceSummarizer called directly *)

\* A caller invokes MapSummarizer.summarize_chunk
CallSummarizeChunk ==
    /\ pc = "idle"
    /\ \E c \in ChunkInputs, f \in BOOLEAN, o \in Outcomes, w \in WriteResults(storage) :
        LET r == summarize_chunk(mapCache, c, f, o, w) IN
        /\ mapCache' = r.cache
        /\ cur' = [newCall("summarize_chunk", c, f) EXCEPT
                      !.ret = r.ret, !.events = r.events,
                      !.pre = mapCache[<<c.parent_id, c.chunk_index>>],
                      !.changed = {<<"map", k>> : k \in changedKeys(mapCache, r.cache)}]
        /\ prev' = digest(cur, "summarize_chunk", c)
    /\ UNCHANGED <<storage, reduceCache, chunkStore, pc>>

\* A caller invokes ReduceSummarizer.reduce
CallReduce ==
    /\ pc = "idle"
    /\ \E d \in ReduceDocIds, sl \in SummaryLists, f \in BOOLEAN, o \in Outcomes,
          w \in WriteResults(storage) :
        LET r   == reduce(reduceCache, d, <<"t">>, sl, f, o, w)
            arg == [doc_id |-> d, title |-> <<"t">>, chunk_summaries |-> sl]
        IN
        /\ reduceCache' = r.cache
        /\ cur' = [newCall("reduce", arg, f) EXCEPT
                      !.ret = r.ret, !.events = r.events, !.pre = reduceCache[d],
                      !.changed = {<<"reduce", k>> : k \in changedKeys(reduceCache, r.cache)}]
        /\ prev' = digest(cur, "reduce", arg)
    /\ UNCHANGED <<storage, mapCache, chunkStore, pc>>

\* A caller invokes MapSummarizer.summarize_chunks: summaries = []
CallSummarizeChunks ==
    /\ pc = "idle"
    /\ \E cl \in ChunkLists, f \in BOOLEAN :
        /\ cur' = [newCall("summarize_chunks", cl, f) EXCEPT !.chunks = cl]
        /\ prev' = digest(cur, "summarize_chunks", cl)
    /\ pc' = "map"
    /\ UNCHANGED <<storage, mapCache, reduceCache, chunkStore>>

\* One pass of the for loop of MapSummarizer.summarize_chunks, for its caller or
\* inside a pipeline run
MapStep ==
    /\ pc = "map"
    /\ cur.i <= Len(cur.chunks)
    /\ \E o \in Outcomes, w \in WriteResults(storage) :
        LET c == cur.chunks[cur.i]
            r == summarize_chunk(mapCache, c, cur.force, o, w)
        IN
        /\ mapCache' = r.cache
        /\ cur' = [cur EXCEPT
                      !.i = @ + 1,
                      !.summaries = collect(@, c, r.ret),
                      !.events = @ \o r.events,
                      !.changed = @ \cup {<<"map", k>> : k \in changedKeys(mapCache, r.cache)}]
    /\ UNCHANGED <<storage, reduceCache, chunkStore, pc, prev>>

\* (the pipeline going on to Step 5 with or without chunk summaries)
MapReturn_always_reduce ==
    /\ pc = "map"
    /\ cur.i > Len(cur.chunks)
    /\ IF cur.op = "summarize_chunks"
       THEN pc' = "idle" /\ cur' = [cur EXCEPT !.ret = cur.summaries]
       ELSE pc' = "reduce" /\ cur' = cur
    /\ UNCHANGED <<storage, mapCache, reduceCache, chunkStore, prev>>

\* The loop is over: summarize_chunks returns summaries; in the pipeline,
\* "if not chunk_summaries: return None", else on to Step 5
MapReturn ==
    /\ pc = "map"
    /\ cur.i > Len(cur.chunks)
    /\ IF cur.op = "summarize_chunks"
       THEN pc' = "idle" /\ cur' = [cur EXCEPT !.ret = cur.summaries]
       ELSE IF cur.summaries = <<>>
            THEN pc' = "idle" /\ cur' = [cur EXCEPT !.ret = None]
            ELSE pc' = "reduce" /\ cur' = cur
    /\ UNCHANGED <<storage, mapCache, reduceCache, chunkStore, prev>>

----------------------------------------------------------------------------
(* SummarizationPipeline.run *)

\* A caller invokes run on a pipeline whose scraper yields raw_data and whose
\* normalizer is of the given kind
RunStart ==
    /\ pc = "idle"
    /\ \E raw_data \in RawDocs, kind \in NormalizerKinds, f \in BOOLEAN :
        LET arg == [raw_data |-> raw_data, normalizer |-> kind] IN
        /\ cur' = newCall("run", arg, f)
        /\ prev' = digest(cur, "run", arg)
    /\ pc' = "scrape"
    /\ UNCHANGED <<storage, mapCache, reduceCache, chunkStore>>

\* A caller invokes run for the first time over empty caches, and once more with
\* force_rerun=False on the same document when that run has returned
RunFirstThenAgain ==
    /\ pc = "idle"
    /\ \/ /\ cur.op = "none"
          /\ \E raw_data \in RawDocs, kind \in NormalizerKinds, f \in BOOLEAN :
                cur' = newCall("run", [raw_data |-> raw_data, normalizer |-> kind], f)
       \/ /\ cur.op = "run" /\ ~prev.same
          /\ cur' = newCall("run", cur.arg, FALSE)
    /\ prev' = digest(cur, "run", cur'.arg)
    /\ pc' = "scrape"
    /\ UNCHANGED <<storage, mapCache, reduceCache, chunkStore>>

\* Step 1: self.scraper.scrape() returns the page or raises
RunScrape ==
    /\ pc = "scrape"
    /\ \E s \in {"ok", "raise"} :
        /\ cur' = [cur EXCEPT !.events = Append(@, [ev |-> "stage_scrape"]),
                              !.raised = (s = "raise")]
        /\ pc' = IF s = "raise" THEN "except" ELSE "normalize"
    /\ UNCHANGED <<storage, mapCache, reduceCache, chunkStore, prev>>

\* Step 2: self.normalizer.normalize(raw_data, source_type), which writes the
\* normalized document to NORMALIZED_DIR and raises if that fails
RunNormalize ==
    /\ pc = "normalize"
    /\ \E w \in WriteResults(storage) :
        /\ cur' = [cur EXCEPT !.events = Append(@, [ev |-> "stage_normalize"]),
                              !.raised = (w # "ok")]
        /\ pc' = IF w # "ok" THEN "except" ELSE "chunk"
    /\ UNCHANGED <<storage, mapCache, reduceCache, chunkStore, prev>>

\* Step 3: self.chunker.chunk(doc_id, text); "if not chunks: return None"
RunChunk ==
    /\ pc = "chunk"
    /\ \E w \in WriteResults(storage) :
        LET normalized == normalize(cur.arg.normalizer, cur.arg.raw_data)
            ck == chunk(chunkStore, normalized.id, normalized.text, w)
        IN
        /\ chunkStore' = ck.store
        /\ cur' = [cur EXCEPT
                      !.events = Append(@, [ev |-> "stage_chunk", doc |-> normalized.id])
                                 \o ck.events,
                      !.raised = ck.raised,
                      !.chunks = ck.ret,
                      !.changed = @ \cup {<<"chunks", k>> : k \in changedKeys(chunkStore, ck.store)}]
        /\ pc' = IF ck.raised THEN "except"
                 ELSE IF ck.ret = <<>> THEN "idle"
                 ELSE "map"
    /\ UNCHANGED <<storage, mapCache, reduceCache, prev>>

\* (Step 5 with the test "if final_summary is not None")
RunReduce_not_none ==
    /\ pc = "reduce"
    /\ \E o \in Outcomes, w \in WriteResults(storage) :
        LET normalized    == normalize(cur.arg.normalizer, cur.arg.raw_data)
            summary_texts == [j \in 1..Len(cur.summaries) |-> cur.summaries[j].summary]
            r == reduce(reduceCache, normalized.id, normalized.title, summary_texts,
                        cur.force, o, w)
        IN
        /\ reduceCache' = r.cache
        /\ cur' = [cur EXCEPT
                      !.events = Append(@, [ev |-> "stage_reduce", doc |-> normalized.id])
                                 \o r.events,
                      !.final_summary = r.ret,
                      !.ret = r.ret,
                      !.changed = @ \cup {<<"reduce", k>> : k \in changedKeys(reduceCache, r.cache)}]
        /\ pc' = "idle"
    /\ UNCHANGED <<storage, mapCache, chunkStore, prev>>

\* Step 5: self.reduce_summarizer.reduce(doc_id, title, summary_texts, force_rerun);
\* "if final_summary: return final_summary / else: return None"
RunReduce ==
    /\ pc = "reduce"
    /\ \E o \in Outcomes, w \in WriteResults(storage) :
        LET normalized    == normalize(cur.arg.normalizer, cur.arg.raw_data)
            summary_texts == [j \in 1..Len(cur.summaries) |-> cur.summaries[j].summary]
            r == reduce(reduceCache, normalized.id, normalized.title, summary_texts,
                        cur.force, o, w)
        IN
        /\ reduceCache' = r.cache
        /\ cur' = [cur EXCEPT
                      !.events = Append(@, [ev |-> "stage_reduce", doc |-> normalized.id])
                                 \o r.events,
                      !.final_summary = r.ret,
                      !.ret = IF Truthy(r.ret) THEN r.ret ELSE None,
                      !.changed = @ \cup {<<"reduce", k>> : k \in changedKeys(reduceCache, r.cache)}]
        /\ pc' = "idle"
    /\ UNCHANGED <<storage, mapCache, chunkStore, prev>>

\* (run without its except clause: the exception reaches the caller)
RunExcept_reraise ==
    /\ pc = "except"
    /\ cur' = [cur EXCEPT !.events = Append(@, [ev |-> "except"])]
    /\ pc' = "idle"
    /\ UNCHANGED <<storage, mapCache, reduceCache, chunkStore, prev>>

\* except Exception as e: logger.error(...); return None
RunExcept ==
    /\ pc = "except"
    /\ cur' = [cur EXCEPT !.ret = None, !.raised = FALSE,
                          !.events = Append(@, [ev |-> "except"])]
    /\ pc' = "idle"
    /\ UNCHANGED <<storage, mapCache, reduceCache, chunkStore, prev>>

----------------------------------------------------------------------------
(* Two pipeline processes at once *)

\* In the specification of concurrent runs pc and cur hold one value per run,
\* and prev is the log of the cache writes in the order they were completed.
\* What one run does to a cache file is taken apart into the steps another
\* process can come between: the read of _load_cached_summary, the oracle
\* invocation, open(filepath, "w") and json.dump + close of _save_summary.

Runs == {"A", "B"}

\* A cache file just opened with mode "w": it exists and is empty
TruncatedFile == [exists |-> TRUE, ok |-> FALSE, summary |-> <<>>, truncated |-> TRUE]

\* (a write that replaces the file whatever is in it)
overlay_replacing(f, summary) == {GoodFile(summary)}

\* What json.dump + close can leave in a file opened earlier with mode "w": the
\* data is written from offset 0 over what the file holds by then, without
\* truncating it again.  The files of one key differ in length only by their
\* summaries, so a longer or equally long summary covers the other file, and
\* after a shorter one the other file's tail remains and the file does not parse.
overlay(f, summary) ==
    IF f = TruncatedFile \/ ~f.exists THEN {GoodFile(summary)}
    ELSE IF f.ok THEN (IF Len(summary) < Len(f.summary) THEN {TornFile}
                       ELSE {GoodFile(summary)})
    ELSE {GoodFile(summary), TornFile}

\* The document both processes run on
ConcurrentDoc == CHOOSE d \in RawDocs : d.text # <<>>

\* Step 2 of either run on it: self.normalizer.normalize(raw_data)
ConcurrentNormalized == normalize("default", ConcurrentDoc)

\* Step 3 of either run on it: self.chunker.chunk(doc_id, text), which returns
\* the chunks and replaces the document's chunk file whatever was stored
ConcurrentChunked ==
    chunk([d \in DocIds |-> NoChunks], ConcurrentNormalized.id, ConcurrentNormalized.text, "ok")

\* A run that has been through Steps 1 to 3
concurrentRun(raw_data, kind, force, chunks) ==
    [op |-> "run", arg |-> [raw_data |-> raw_data, normalizer |-> kind], force |-> force,
     ret |-> None, raised |-> FALSE, events |-> <<>>,
     chunks |-> chunks, i |-> 1, summaries |-> <<>>, pending |-> <<>>]

ConcurrentInit ==
    /\ storage = "reliable"
    /\ mapCache = [k \in MapKeys |-> NoFile]
    /\ reduceCache = [d \in DocIds |-> NoFile]
    /\ chunkStore = [d \in DocIds |-> NoChunks]
    /\ pc = [r \in Runs |-> "idle"]
    /\ cur = [r \in Runs |-> concurrentRun(ConcurrentDoc, "default", FALSE, <<>>)]
    /\ prev = <<>>

\* Where run r goes when chunk i is dealt with: the next chunk, the end of the
\* run ("if not chunk_summaries: return None") or Step 5
afterChunk(c) ==
    IF c.i + 1 <= Len(c.chunks) THEN "lookup"
    ELSE IF c.summaries = <<>> THEN "done" ELSE "reduce_lookup"

\* Steps 1 to 3 of run r: scrape, normalize, chunk (the chunk set both runs
\* write is the same, and nothing reads it)
ConcStart(r) ==
    /\ pc[r] = "idle"
    /\ \E f \in BOOLEAN :
        cur' = [cur EXCEPT ![r] = concurrentRun(ConcurrentDoc, "default", f,
                                                ConcurrentChunked.ret)]
    /\ chunkStore' = [chunkStore EXCEPT ![ConcurrentNormalized.id] =
                                            ConcurrentChunked.store[ConcurrentNormalized.id]]
    /\ pc' = [pc EXCEPT ![r] = IF ConcurrentChunked.ret = <<>> THEN "done" ELSE "lookup"]
    /\ UNCHANGED <<storage, mapCache, reduceCache, prev>>

\* summarize_chunk on chunk i, up to the oracle invocation: "if not force_rerun:
\* cached = self._load_cached_summary(...); if cached: return cached"
ConcLookup(r) ==
    /\ pc[r] = "lookup"
    /\ LET c      == cur[r].chunks[cur[r].i]
           cached == map_load_cached_summary(mapCache, c.parent_id, c.chunk_index)
       IN  IF ~cur[r].force /\ Truthy(cached)
           THEN LET done == [cur[r] EXCEPT !.summaries = collect(@, c, cached)] IN
                /\ cur' = [cur EXCEPT ![r] = [done EXCEPT !.i = @ + 1]]
                /\ pc' = [pc EXCEPT ![r] = afterChunk(done)]
           ELSE /\ cur' = cur
                /\ pc' = [pc EXCEPT ![r] = "invoke"]
    /\ UNCHANGED <<storage, mapCache, reduceCache, chunkStore, prev>>

\* self.llm.invoke(prompt) for chunk i; summary = summary.strip()
ConcInvoke(r) ==
    /\ pc[r] = "invoke"
    /\ \E o \in Outcomes :
        LET c  == cur[r].chunks[cur[r].i]
            ev == [ev |-> "oracle_map", doc |-> c.parent_id, idx |-> c.chunk_index,
                   raises |-> o.raises, response |-> o.text]
            called == [cur[r] EXCEPT !.events = Append(@, ev)]
        IN  IF o.raises
            THEN /\ cur' = [cur EXCEPT ![r] = [called EXCEPT !.i = @ + 1]]
                 /\ pc' = [pc EXCEPT ![r] = afterChunk(called)]
            ELSE /\ cur' = [cur EXCEPT ![r] = [called EXCEPT !.pending = strip(o.text)]]
                 /\ pc' = [pc EXCEPT ![r] = "open"]
    /\ UNCHANGED <<storage, mapCache, reduceCache, chunkStore, prev>>

\* _save_summary: open(filepath, "w")
ConcOpen(r) ==
    /\ pc[r] = "open"
    /\ mapCache' = [mapCache EXCEPT ![keyOfChunk(cur[r].chunks[cur[r].i])] = TruncatedFile]
    /\ pc' = [pc EXCEPT ![r] = "write"]
    /\ UNCHANGED <<storage, reduceCache, chunkStore, cur, prev>>

\* _save_summary: json.dump(data, f) and the close of the file; summarize_chunk
\* returns summary and the loop of summarize_chunks collects it
ConcWrite(r) ==
    /\ pc[r] = "write"
    /\ LET c == cur[r].chunks[cur[r].i]
           k == keyOfChunk(c)
       IN
       \E file \in overlay(mapCache[k], cur[r].pending) :
        LET done == [cur[r] EXCEPT !.summaries = collect(@, c, Some(cur[r].pending)),
                                   !.pending = <<>>]
        IN
        /\ mapCache' = [mapCache EXCEPT ![k] = file]
        /\ prev' = Append(prev, [key |-> <<"map", k>>, by |-> r,
                                 value |-> cur[r].pending, over |-> mapCache[k]])
        /\ cur' = [cur EXCEPT ![r] = [done EXCEPT !.i = @ + 1]]
        /\ pc' = [pc EXCEPT ![r] = afterChunk(done)]
    /\ UNCHANGED <<storage, reduceCache, chunkStore>>

\* reduce up to the oracle invocation: "if not force_rerun: cached =
\* self._load_cached_summary(doc_id); if cached: return cached"
ConcReduceLookup(r) ==
    /\ pc[r] = "reduce_lookup"
    /\ LET doc_id == ConcurrentNormalized.id
           cached == reduce_load_cached_summary(reduceCache, doc_id)
       IN  IF ~cur[r].force /\ Truthy(cached)
           THEN /\ cur' = [cur EXCEPT ![r].ret = cached]
                /\ pc' = [pc EXCEPT ![r] = "done"]
           ELSE /\ cur' = cur
                /\ pc' = [pc EXCEPT ![r] = "reduce_invoke"]
    /\ UNCHANGED <<storage, mapCache, reduceCache, chunkStore, prev>>

\* self.llm.invoke(prompt) of reduce; final_summary = final_summary.strip()
ConcReduceInvoke(r) ==
    /\ pc[r] = "reduce_invoke"
    /\ \E o \in Outcomes :
        LET ev == [ev |-> "oracle_reduce",
                   doc |-> ConcurrentNormalized.id,
                   raises |-> o.raises, response |-> o.text]
        IN
        /\ cur' = [cur EXCEPT ![r].events = Append(@, ev),
                              ![r].pending = IF o.raises THEN <<>> ELSE strip(o.text)]
        /\ pc' = [pc EXCEPT ![r] = IF o.raises THEN "done" ELSE "reduce_open"]
    /\ UNCHANGED <<storage, mapCache, reduceCache, chunkStore, prev>>

\* _save_summary of reduce: open(filepath, "w")
ConcReduceOpen(r) ==
    /\ pc[r] = "reduce_open"
    /\ reduceCache' =
          [reduceCache EXCEPT ![ConcurrentNormalized.id] = TruncatedFile]
    /\ pc' = [pc EXCEPT ![r] = "reduce_write"]
    /\ UNCHANGED <<storage, mapCache, chunkStore, cur, prev>>

\* _save_summary of reduce: json.dump and close; reduce returns final_summary
\* and run returns it "if final_summary", else None
ConcReduceWrite(r) ==
    /\ pc[r] = "reduce_write"
    /\ LET doc_id == ConcurrentNormalized.id IN
       \E file \in overlay(reduceCache[doc_id], cur[r].pending) :
        /\ reduceCache' = [reduceCache EXCEPT ![doc_id] = file]
        /\ prev' = Append(prev, [key |-> <<"reduce", doc_id>>, by |-> r,
                                 value |-> cur[r].pending, over |-> reduceCache[doc_id]])
        /\ cur' = [cur EXCEPT ![r].ret = IF cur[r].pending # <<>>
                                         THEN Some(cur[r].pending) ELSE None,
                              ![r].pending = <<>>]
        /\ pc' = [pc EXCEPT ![r] = "done"]
    /\ UNCHANGED <<storage, mapCache, chunkStore>>

\* One step of run r
ConcStep(r) ==
    \/ ConcStart(r)
    \/ ConcLookup(r)
    \/ ConcInvoke(r)
    \/ ConcOpen(r)
    \/ ConcWrite(r)
    \/ ConcReduceLookup(r)
    \/ ConcReduceInvoke(r)
    \/ ConcReduceOpen(r)
    \/ ConcReduceWrite(r)

----------------------------------------------------------------------------
(* Specifications *)

\* The pipeline, run again and again
Next ==
    \/ RunStart
    \/ RunScrape
    \/ RunNormalize
    \/ RunChunk
    \/ MapStep
    \/ MapReturn
    \/ RunReduce
    \/ RunExcept

Spec == Init /\ [][Next]_vars

\* MapSummarizer.summarize_chunks, called directly
MapNext ==
    \/ CallSummarizeChunks
    \/ MapStep
    \/ MapReturn

MapSpec == Init /\ [][MapNext]_vars

\* The pipeline, run a first and a second time
TwoRunsNext ==
    \/ RunFirstThenAgain
    \/ RunScrape
    \/ RunNormalize
    \/ RunChunk
    \/ MapStep
    \/ MapReturn
    \/ RunReduce
    \/ RunExcept

TwoRunsSpec == Init /\ [][TwoRunsNext]_vars

\* summarize_chunk and reduce, called directly
SummarizerNext ==
    \/ CallSummarizeChunk
    \/ CallReduce

SummarizerSpec == Init /\ [][SummarizerNext]_vars

\* The caches as an interrupted write of an earlier process left them: the
\* entries callers are about to ask for exist but cannot be parsed
CorruptInit ==
    /\ storage = "reliable"
    /\ mapCache = [k \in MapKeys |->
                      IF k \in {<<c.parent_id, c.chunk_index>> : c \in ChunkInputs}
                      THEN TornFile ELSE NoFile]
    /\ reduceCache = [d \in DocIds |-> IF d \in ReduceDocIds THEN TornFile ELSE NoFile]
    /\ chunkStore = [d \in DocIds |-> NoChunks]
    /\ pc = "idle"
    /\ cur = newCall("none", <<>>, FALSE)
    /\ prev = NoPrev

\* summarize_chunk and reduce, called directly over such caches
CorruptSpec == CorruptInit /\ [][SummarizerNext]_vars

\* Two runs for one document, their steps interleaved in any order
ConcurrentNext == \E r \in Runs : ConcStep(r)

ConcurrentSpec == ConcurrentInit /\ [][ConcurrentNext]_vars

\* TextChunker.chunk, called directly
ChunkerSpec == ChunkerInit /\ [][CallChunk]_vars

\* The pipeline over storage whose writes may fail
FaultInit == storage = "faulty" /\ InitCaches

FaultSpec == FaultInit /\ [][Next]_vars

----------------------------------------------------------------------------
(* Properties *)

eventsOfKind(events, kinds) == SelectSeq(events, LAMBDA e : e.ev \in kinds)

MapEventKinds == {"load_map", "oracle_map", "save_map"}
ReduceEventKinds == {"stage_reduce", "load_final", "oracle_reduce", "save_final"}

keyOf(c) == <<c.parent_id, c.chunk_index>>

keysOf(cl) == [j \in 1..Len(cl) |-> keyOf(cl[j])]

\* The call that returned last was op
Returned(op) == pc = "idle" /\ cur.op = op

\* A run with force_rerun=False has returned, its scraper having delivered the
\* same document as in the run before it, which returned a final summary
RerunOfReturnedRun ==
    /\ Returned("run")
    /\ ~cur.force
    /\ prev.same
    /\ Truthy(prev.ret)
    /\ eventsOfKind(cur.events, {"except"}) = <<>>

\* C1 as stated: after a run returned a final summary, a rerun with
\* force_rerun=False on the same document returns the same text and invokes the
\* oracle neither in Map nor in Reduce.
C1_Original ==
    RerunOfReturnedRun =>
        /\ cur.ret = prev.ret
        /\ oracleEvents(cur.events) = <<>>

\* C1 amended: such a rerun returns the same final summary text without a Reduce
\* oracle invocation; it makes no oracle invocation at all when the first run had
\* obtained a summary for every chunk.
C1_Rerun ==
    RerunOfReturnedRun =>
        /\ cur.ret = prev.ret
        /\ eventsOfKind(cur.events, {"oracle_reduce"}) = <<>>
        /\ prev.complete => oracleEvents(cur.events) = <<>>

C1_Witness ==
    /\ RerunOfReturnedRun
    /\ prev.complete
    /\ prev.oracle > 0
    /\ Len(cur.chunks) > 1
    /\ cur.ret = prev.ret
    /\ oracleEvents(cur.events) = <<>>

\* summarize_chunk with force_rerun=False has returned, the call before it being
\* summarize_chunk with force_rerun=False on the same chunk
SecondSummarizeChunk ==
    /\ Returned("summarize_chunk")
    /\ ~cur.force
    /\ prev.same
    /\ ~prev.force

\* C2 as stated: two successive summarize_chunk calls with force_rerun=False on a
\* chunk invoke the oracle at most once in total, and the second returns the text
\* in the cache for (parent_id, chunk_index), identical to the first's result.
C2_Original ==
    SecondSummarizeChunk =>
        /\ prev.oracle + Len(oracleEvents(cur.events)) <= 1
        /\ cur.ret = load_file(mapCache[keyOf(cur.arg)])
        /\ cur.ret = prev.ret

\* C2 amended: when the first of the two calls returned a non-empty summary, the
\* two calls invoke the oracle at most once in total (the second not at all), and
\* the second returns the text in the cache, identical to the first's result.
C2_Idempotent ==
    SecondSummarizeChunk /\ Truthy(prev.ret) =>
        /\ prev.oracle + Len(oracleEvents(cur.events)) <= 1
        /\ oracleEvents(cur.events) = <<>>
        /\ cur.ret = load_file(mapCache[keyOf(cur.arg)])
        /\ cur.ret = prev.ret

C2_Witness ==
    /\ SecondSummarizeChunk
    /\ Truthy(prev.ret)
    /\ prev.oracle = 1
    /\ cur.ret = prev.ret
    /\ cur.events # <<>>

\* summarize_chunk, or reduce with a non-empty list, has returned from a call with
\* force_rerun=True
ForcedCall ==
    /\ pc = "idle"
    /\ cur.force
    /\ \/ cur.op = "summarize_chunk"
       \/ cur.op = "reduce" /\ cur.arg.chunk_summaries # <<>>

\* The cache entry a direct call is about
entryOf(c) ==
    IF c.op = "summarize_chunk" THEN mapCache[keyOf(c.arg)] ELSE reduceCache[c.arg.doc_id]

\* C3: summarize_chunk, or reduce with a non-empty list, called with
\* force_rerun=True invokes the oracle (once) whether or not the cache holds an
\* entry for its key, without reading the cache, and when the oracle answers, the
\* entry for the key afterwards holds the trimmed answer in place of the old value.
C3_ForceRerun ==
    ForcedCall =>
        LET os == oracleEvents(cur.events) IN
        /\ Len(os) = 1
        /\ os[1].ev = (IF cur.op = "reduce" THEN "oracle_reduce" ELSE "oracle_map")
        /\ eventsOfKind(cur.events, {"load_map", "load_final"}) = <<>>
        /\ ~os[1].raises =>
              /\ entryOf(cur) = GoodFile(strip(os[1].response))
              /\ entryOf(cur).summary = <<>> \/
                    /\ Head(entryOf(cur).summary) \notin Whitespace
                    /\ entryOf(cur).summary[Len(entryOf(cur).summary)] \notin Whitespace
              /\ os[1].response = <<" ", "y", NL>> => entryOf(cur).summary = <<"y">>

C3_Witness ==
    /\ ForcedCall
    /\ cur.op = "summarize_chunk"
    /\ cur.pre = GoodFile(<<"x">>)
    /\ oracleEvents(cur.events)[1].response = <<" ", "y", NL>>
    /\ mapCache[keyOf(cur.arg)] = GoodFile(<<"y">>)

\* The oracle invocations of the call that raised
raisedEvents(c) == SelectSeq(c.events, LAMBDA e : e.ev = "oracle_map" /\ e.raises)

\* The oracle invocations of the call that answered with nothing but whitespace
blankEvents(c) ==
    SelectSeq(c.events, LAMBDA e : e.ev = "oracle_map" /\ ~e.raises /\ strip(e.response) = <<>>)

\* summarize_chunks has returned and summarization raised for exactly one chunk
OneChunkRaised ==
    /\ Returned("summarize_chunks")
    /\ Len(raisedEvents(cur)) = 1

\* The result has one entry less than the input, and its keys are the input's
\* keys without the failed chunk's, in the input's order
AllButTheFailed ==
    LET failed == <<raisedEvents(cur)[1].doc, raisedEvents(cur)[1].idx>> IN
    /\ Len(cur.ret) = Len(cur.arg) - 1
    /\ keysOf(cur.ret) = SelectSeq(keysOf(cur.arg), LAMBDA k : k # failed)

\* C4 as stated: when summarization raises for exactly one of N chunks,
\* summarize_chunks returns exactly N-1 entries, the other chunks in input order.
C4_Original == OneChunkRaised => AllButTheFailed

\* C4 amended: when summarization raises for exactly one of N chunks and the
\* oracle's answer for no other chunk is empty after trimming, summarize_chunks
\* returns exactly N-1 entries, the other chunks in input order.
C4_PartialFailure ==
    OneChunkRaised /\ blankEvents(cur) = <<>> => AllButTheFailed

C4_Witness ==
    /\ OneChunkRaised
    /\ blankEvents(cur) = <<>>
    /\ Len(cur.arg) = 3
    /\ raisedEvents(cur)[1].idx = 1
    /\ keysOf(cur.ret) = <<keyOf(cur.arg[1]), keyOf(cur.arg[3])>>

\* C5: run never lets an exception out: a stage that raises is followed by the
\* except clause, and the run then returns None.
C5_NoException ==
    /\ cur.op = "run" /\ cur.raised => pc = "except"
    /\ Returned("run") /\ eventsOfKind(cur.events, {"except"}) # <<>> =>
          cur.ret = None /\ ~cur.raised

C5_Witness ==
    /\ Returned("run")
    /\ eventsOfKind(cur.events, {"save_chunks", "except"}) =
          <<[ev |-> "save_chunks", doc |-> generate_id("u1", <<"t">>, "")], [ev |-> "except"]>>
    /\ cur.ret = None
    /\ ~cur.raised

\* The current run is past its Chunk step and its normalized text is empty
EmptyTextRun ==
    /\ cur.op = "run"
    /\ normalize(cur.arg.normalizer, cur.arg.raw_data).text = <<>>
    /\ eventsOfKind(cur.events, {"stage_chunk"}) # <<>>

\* C6: chunk(doc_id, "") returns no chunks (and writes nothing), and the run of a
\* document with empty text returns None at the Chunk step without raising: Map
\* and Reduce are not entered and the oracle is not invoked.
C6_EmptyDocument ==
    /\ \A d \in DocIds, w \in WriteResults("faulty") :
          LET ck == chunk(chunkStore, d, <<>>, w) IN
          ck.ret = <<>> /\ ~ck.raised /\ ck.store = chunkStore
    /\ EmptyTextRun =>
          /\ pc = "idle"
          /\ cur.ret = None
          /\ ~cur.raised
          /\ cur.chunks = <<>>
          /\ cur.changed = {}
          /\ eventsOfKind(cur.events, MapEventKinds \cup ReduceEventKinds \cup {"except"}) = <<>>

C6_Witness ==
    /\ EmptyTextRun
    /\ Returned("run")
    /\ cur.ret = None
    /\ cur.events = <<[ev |-> "stage_scrape"], [ev |-> "stage_normalize"],
                      [ev |-> "stage_chunk", doc |-> generate_id("u2", <<"t">>, "")]>>

\* The Map step of the current run is over and has yielded no chunk summary
MapYieldedNothing ==
    /\ cur.op = "run"
    /\ cur.chunks # <<>>
    /\ cur.i > Len(cur.chunks)
    /\ cur.summaries = <<>>

\* C7: when Map yields no chunk summary, run returns None and reduce is not
\* invoked: no reduce oracle invocation, the final-summary cache neither read
\* nor written.
C7_NoChunkSummaries ==
    MapYieldedNothing =>
        /\ pc \in {"map", "idle"}
        /\ pc = "idle" => cur.ret = None /\ ~cur.raised
        /\ eventsOfKind(cur.events, ReduceEventKinds) = <<>>
        /\ \A d \in DocIds : <<"reduce", d>> \notin cur.changed

C7_Witness ==
    /\ MapYieldedNothing
    /\ Returned("run")
    /\ Len(cur.chunks) = 2
    /\ Len(raisedEvents(cur)) = 1
    /\ Len(blankEvents(cur)) = 1
    /\ reduceCache[generate_id("u1", <<"t">>, "")].exists

\* C8: reduce with an empty list returns None without invoking the oracle, with
\* or without force_rerun, with or without a cached final summary, and leaves
\* the cache as it was (and unread).
C8_ReduceEmpty ==
    Returned("reduce") /\ cur.arg.chunk_summaries = <<>> =>
        /\ cur.ret = None
        /\ cur.events = <<>>
        /\ cur.changed = {}
        /\ reduceCache[cur.arg.doc_id] = cur.pre

C8_Witness ==
    /\ Returned("reduce")
    /\ cur.arg.chunk_summaries = <<>>
    /\ cur.force
    /\ cur.pre = GoodFile(<<"y">>)
    /\ cur.ret = None

\* reduce has returned from a call with force_rerun=False and a non-empty list
UnforcedReduce ==
    /\ Returned("reduce")
    /\ ~cur.force
    /\ cur.arg.chunk_summaries # <<>>

\* reduce returned what the cache held, invoked no oracle and wrote nothing
ServedFromCache ==
    /\ cur.ret = Some(cur.pre.summary)
    /\ oracleEvents(cur.events) = <<>>
    /\ cur.changed = {}
    /\ reduceCache[cur.arg.doc_id] = cur.pre

\* C9 as stated: reduce with force_rerun=False and a non-empty list, the cache
\* holding an entry for doc_id, returns the cached summary, invokes no oracle
\* and leaves the cache unchanged.
C9_Original == UnforcedReduce /\ cur.pre.exists => ServedFromCache

\* C9 amended: the same, when the entry the cache holds for doc_id has a
\* non-empty summary.
C9_CacheHit ==
    UnforcedReduce /\ Truthy(load_file(cur.pre)) => ServedFromCache

C9_Witness ==
    /\ UnforcedReduce
    /\ cur.pre = GoodFile(<<"x">>)
    /\ Len(cur.arg.chunk_summaries) = 2
    /\ cur.ret = Some(<<"x">>)

\* reduce has returned from a call with a non-empty list that found no usable
\* cached summary or had force_rerun=True
ReduceMissOrForced ==
    /\ Returned("reduce")
    /\ cur.arg.chunk_summaries # <<>>
    /\ cur.force \/ ~Truthy(load_file(cur.pre))

\* C10: on a miss or a forced rerun, reduce invokes the oracle exactly once
\* whatever the number n >= 1 of summaries, with the summaries numbered
\* Chunk 1..n in input order, and when the oracle answers it stores the trimmed
\* answer under doc_id, over any prior entry, and returns that trimmed text.
C10_ReduceOnce ==
    ReduceMissOrForced =>
        LET os == oracleEvents(cur.events)
            sl == cur.arg.chunk_summaries
        IN
        /\ Len(os) = 1
        /\ os[1].ev = "oracle_reduce"
        /\ os[1].title = cur.arg.title
        /\ Len(os[1].summaries) = Len(sl)
        /\ \A j \in 1..Len(sl) : os[1].summaries[j] = [label |-> j, text |-> sl[j]]
        /\ ~os[1].raises =>
              /\ reduceCache[cur.arg.doc_id] = GoodFile(strip(os[1].response))
              /\ cur.ret = Some(strip(os[1].response))
              /\ cur.changed \subseteq {<<"reduce", cur.arg.doc_id>>}

C10_Witness ==
    /\ ReduceMissOrForced
    /\ ~cur.force
    /\ cur.pre = GoodFile(<<>>)
    /\ Len(cur.arg.chunk_summaries) = 2
    /\ cur.ret = Some(<<"y">>)
    /\ reduceCache[cur.arg.doc_id] = GoodFile(<<"y">>)

\* The run has been through Step 5
ReduceReturned ==
    /\ Returned("run")
    /\ eventsOfKind(cur.events, {"stage_reduce"}) # <<>>

\* C11 as stated: when the oracle raises during reduce, reduce returns None
\* without raising and the run returns None; when reduce returns a result that
\* is not None, the run returns exactly that text.
C11_Original ==
    ReduceReturned =>
        /\ (\E j \in 1..Len(cur.events) :
               cur.events[j].ev = "oracle_reduce" /\ cur.events[j].raises) =>
              cur.final_summary = None /\ cur.ret = None
        /\ cur.final_summary # None => cur.ret = cur.final_summary

\* C11 amended: when the oracle raises during reduce, reduce returns None
\* without raising and the run returns None (the except clause of run is not
\* entered); when reduce returns a result that is neither None nor empty, the
\* run returns exactly that text, and otherwise the run returns None.
C11_ReduceResult ==
    ReduceReturned =>
        /\ (\E j \in 1..Len(cur.events) :
               cur.events[j].ev = "oracle_reduce" /\ cur.events[j].raises) =>
              cur.final_summary = None /\ cur.ret = None
        /\ eventsOfKind(cur.events, {"except"}) = <<>> /\ ~cur.raised
        /\ IF Truthy(cur.final_summary)
           THEN cur.ret = cur.final_summary
           ELSE cur.ret = None

C11_Witness ==
    /\ ReduceReturned
    /\ cur.final_summary = Some(<<"y">>)
    /\ cur.ret = Some(<<"y">>)
    /\ Len(cur.summaries) = 2

\* chunk has returned a chunk list to its caller
ChunkReturned == Returned("chunk") /\ ~cur.raised

\* The non-empty trimmed paragraphs of a text, in order
paragraphs(text) ==
    LET ps == split(text, <<>>) IN
    SelectSeq([j \in 1..Len(ps) |-> strip(ps[j])], LAMBDA q : q # <<>>)

\* The overlap with which the chunk after one of text t begins
overlapSeed(t) == lstrip(lastChars(t, overlap_size))

\* Chunk k of a chunk list without its overlapped prefix and the separator after it
remainder(chunks, k) ==
    IF k = 1 \/ overlap_size = 0
    THEN chunks[k].text
    ELSE SubSeq(chunks[k].text, Len(overlapSeed(chunks[k - 1].text)) + 3,
                Len(chunks[k].text))

\* The paragraphs of the remainders of chunks k, k+1, ... one after the other
RECURSIVE remainderParagraphs(_, _)
remainderParagraphs(chunks, k) ==
    IF k > Len(chunks) THEN <<>>
    ELSE paragraphs(remainder(chunks, k)) \o remainderParagraphs(chunks, k + 1)

\* C12: for non-empty text chunk returns at least one chunk, and the chunks
\* without their overlapped prefixes (and the separators after them) hold, one
\* after the other, exactly the text's non-empty trimmed paragraphs, each once
\* and in order.
C12_Coverage ==
    ChunkReturned /\ cur.arg.text # <<>> =>
        /\ Len(cur.ret) >= 1
        /\ remainderParagraphs(cur.ret, 1) = paragraphs(cur.arg.text)

C12_Witness ==
    /\ ChunkReturned
    /\ Len(cur.ret) = 3
    /\ paragraphs(cur.arg.text) = << <<"a", " ", "b">>, <<"a">>, <<"b", "b">> >>
    /\ remainder(cur.ret, 3) = <<"b", "b">>
    /\ cur.ret[3].text # <<"b", "b">>

\* chunk has returned more than one chunk, the overlap being positive
SeveralChunks == ChunkReturned /\ overlap_size > 0 /\ Len(cur.ret) > 1

\* C13 as stated: with overlap > 0 and more than one chunk, every chunk k+1
\* begins with the trailing overlap_size characters of chunk k.
C13_Original ==
    SeveralChunks =>
        \A k \in 1..(Len(cur.ret) - 1) :
            LET tail == lastChars(cur.ret[k].text, overlap_size) IN
            /\ Len(cur.ret[k + 1].text) >= Len(tail)
            /\ SubSeq(cur.ret[k + 1].text, 1, Len(tail)) = tail

\* C13 amended: with overlap > 0 and more than one chunk, every chunk k+1 begins
\* with the trailing overlap_size characters of chunk k less their leading
\* whitespace, followed by the paragraph separator.
C13_Overlap ==
    SeveralChunks =>
        \A k \in 1..(Len(cur.ret) - 1) :
            LET seed == overlapSeed(cur.ret[k].text) IN
            /\ seed # <<>>
            /\ Len(cur.ret[k + 1].text) > Len(seed) + 2
            /\ SubSeq(cur.ret[k + 1].text, 1, Len(seed) + 2) = seed \o <<NL, NL>>

C13_Witness ==
    /\ SeveralChunks
    /\ Len(cur.ret) = 3
    /\ cur.ret[1].text = <<"a", " ", "b">>
    /\ overlapSeed(cur.ret[1].text) # lastChars(cur.ret[1].text, overlap_size)
    /\ SubSeq(cur.ret[2].text, 1, 3) = <<"b", NL, NL>>

\* The chunk-set file that holds a chunk list
storedChunks(chunks) == [exists |-> TRUE, ok |-> TRUE, chunks |-> chunks]

\* C14 as stated: after every call of chunk the record for doc_id holds exactly
\* the chunk sequence the call returned, in place of what was stored before.
C14_Original ==
    ChunkReturned => chunkStore[cur.arg.doc_id] = storedChunks(cur.ret)

\* C14 amended: after every call of chunk with non-empty text that returns to
\* its caller, the record for doc_id holds exactly the chunk sequence the call
\* returned, in place of what was stored before, and the result is computed from
\* the text, never taken from storage; a call with empty text returns no chunks
\* and leaves the storage as it was.
C14_Stored ==
    ChunkReturned =>
        IF cur.arg.text # <<>>
        THEN /\ chunkStore[cur.arg.doc_id] = storedChunks(cur.ret)
             /\ cur.changed \subseteq {<<"chunks", cur.arg.doc_id>>}
             /\ cur.events = <<[ev |-> "save_chunks", doc |-> cur.arg.doc_id]>>
             /\ remainderParagraphs(cur.ret, 1) = paragraphs(cur.arg.text)
        ELSE /\ cur.ret = <<>>
             /\ cur.changed = {}
             /\ chunkStore[cur.arg.doc_id] = cur.pre

C14_Witness ==
    /\ ChunkReturned
    /\ cur.pre.exists /\ cur.pre.ok
    /\ cur.pre.chunks # cur.ret
    /\ Len(cur.ret) = 2
    /\ chunkStore[cur.arg.doc_id] = storedChunks(cur.ret)

\* C15: chunk never raises to its caller; when the chunk set cannot be written
\* it returns an empty sequence.
C15_NeverRaises ==
    Returned("chunk") => ~cur.raised

\* C16: the chunks returned have chunk_index 0, 1, ..., n-1 in list order and
\* parent_id = doc_id, so that (parent_id, chunk_index) is different for every
\* chunk, and n is at most the number of non-empty paragraphs when there is one.
C16_Indices ==
    ChunkReturned =>
        /\ \A j \in 1..Len(cur.ret) :
              /\ cur.ret[j].chunk_index = j - 1
              /\ cur.ret[j].parent_id = cur.arg.doc_id
        /\ \A j, k \in 1..Len(cur.ret) : j # k => keyOf(cur.ret[j]) # keyOf(cur.ret[k])
        /\ paragraphs(cur.arg.text) # <<>> => Len(cur.ret) <= Len(paragraphs(cur.arg.text))

C16_Witness ==
    /\ ChunkReturned
    /\ Len(paragraphs(cur.arg.text)) = 3
    /\ keysOf(cur.ret) = <<<<cur.arg.doc_id, 0>>, <<cur.arg.doc_id, 1>>, <<cur.arg.doc_id, 2>>>>

\* summarize_chunk, or reduce with a non-empty list, has returned from a call with
\* force_rerun=False that found an entry for its key that cannot be read
UnreadableEntryCall ==
    /\ pc = "idle"
    /\ ~cur.force
    /\ \/ cur.op = "summarize_chunk"
       \/ cur.op = "reduce" /\ cur.arg.chunk_summaries # <<>>
    /\ cur.pre.exists /\ ~cur.pre.ok

\* C17: when an existing cache entry cannot be read or parsed, summarize_chunk
\* and reduce called with force_rerun=False treat it as a miss: no exception
\* escapes, the oracle is invoked (once), and when it answers its trimmed answer
\* is returned and written over the unreadable entry.
C17_UnreadableEntry ==
    UnreadableEntryCall =>
        LET os == oracleEvents(cur.events) IN
        /\ ~cur.raised
        /\ Head(cur.events).ev \in {"load_map", "load_final"}
        /\ Len(os) = 1
        /\ IF os[1].raises
           THEN cur.ret = None /\ entryOf(cur) = cur.pre
           ELSE /\ cur.ret = Some(strip(os[1].response))
                /\ entryOf(cur) = GoodFile(strip(os[1].response))

C17_Witness ==
    /\ UnreadableEntryCall
    /\ cur.op = "reduce"
    /\ cur.pre = TornFile
    /\ cur.ret = Some(<<"y">>)
    /\ reduceCache[cur.arg.doc_id] = GoodFile(<<"y">>)

lastEvent(c) == c.events[Len(c.events)]

\* The cache entry an event is about
eventEntry(e, mc, rc) ==
    IF e.ev \in MapEventKinds THEN mc[<<e.doc, e.idx>>] ELSE rc[e.doc]

\* In this step of a run a cache write was attempted and failed
SaveFailedStep ==
    /\ cur.op = "run"
    /\ Len(cur'.events) > Len(cur.events)
    /\ lastEvent(cur').ev \in {"save_map", "save_final"}
    /\ lastEvent(cur').raised

\* In this step of a run with force_rerun=False a key is looked up for which
\* the cache holds no entry with a non-empty readable summary
MapMissStep ==
    /\ cur.op = "run" /\ pc = "map" /\ ~cur.force
    /\ cur.i <= Len(cur.chunks)
    /\ cur'.i = cur.i + 1
    /\ ~Truthy(load_file(mapCache[keyOf(cur.chunks[cur.i])]))

ReduceMissStep ==
    /\ cur.op = "run" /\ pc = "reduce" /\ pc' = "idle" /\ ~cur.force
    /\ ~Truthy(load_file(reduceCache[normalize(cur.arg.normalizer, cur.arg.raw_data).id]))

\* The events the step added
newEvents == SubSeq(cur'.events, Len(cur.events) + 1, Len(cur'.events))

writesTo(k) == SelectSeq(prev, LAMBDA w : w.key = k)

\* The cache entries that both runs have written
WrittenByBoth == {k \in {prev[j].key : j \in 1..Len(prev)} :
                     \A r \in Runs : \E j \in 1..Len(prev) : prev[j].key = k /\ prev[j].by = r}

\* The file of cache entry k
entryFile(k) == IF k[1] = "map" THEN mapCache[k[2]] ELSE reduceCache[k[2]]

\* Both runs have finished
BothFinished == \A r \in Runs : pc[r] = "done"

\* A run's own oracle raised or answered blank
OwnOracleFailed(r) ==
    \E j \in 1..Len(cur[r].events) :
        cur[r].events[j].raises \/ strip(cur[r].events[j].response) = <<>>

\* The last completed write to entry k was made over the other run's write (the
\* file had been opened before that write was completed) with a shorter summary
ShorterOverOther(k) ==
    LET w == writesTo(k)[Len(writesTo(k))] IN
    w.over # TruncatedFile /\ w.over.ok /\ Len(w.value) < Len(w.over.summary)

\* C19 as stated: when two concurrent runs for one document have finished,
\* every cache entry both wrote holds the value of the write completed last.
C19_Original ==
    BothFinished =>
        \A k \in WrittenByBoth :
            entryFile(k) = GoodFile(writesTo(k)[Len(writesTo(k))].value)

\* C19: of two concurrent runs for one document neither is blocked by the other
\* (a run at work on the cache can always take its next step) and neither fails
\* because of the other (a finished run returns None only if its own oracle
\* raised or answered blank); when both have finished, every cache entry both
\* wrote holds the value of the write completed last, unless that write was made
\* over the other run's write with a shorter summary: then the entry is
\* unreadable and holds neither value.
C19_Concurrent ==
    /\ \A r \in Runs : pc[r] \notin {"idle", "done"} => ENABLED ConcStep(r)
    /\ \A r \in Runs : pc[r] = "done" /\ cur[r].ret = None => OwnOracleFailed(r)
    /\ BothFinished =>
          \A k \in WrittenByBoth :
              entryFile(k) = IF ShorterOverOther(k) THEN TornFile
                             ELSE GoodFile(writesTo(k)[Len(writesTo(k))].value)

C19_Witness ==
    /\ BothFinished
    /\ \E r \in Runs : cur[r].ret # None
    /\ \E k \in WrittenByBoth : k[1] = "reduce" /\ ShorterOverOther(k) /\ entryFile(k) = TornFile
    /\ \E k \in WrittenByBoth : k[1] = "map" /\ ~ShorterOverOther(k) /\ entryFile(k).ok

\* C20: within a run the oracle is invoked for one chunk after the other: what
\* is done for chunk i comes before the lookup for chunk i+1, no chunk has more
\* than one oracle invocation, and the one Reduce invocation comes after the
\* whole Map loop.
C20_Sequential ==
    cur.op = "run" =>
        LET ev == cur.events IN
        /\ \A p, q \in 1..Len(ev) :
              p < q =>
                 /\ ev[p].ev \in MapEventKinds /\ ev[q].ev \in MapEventKinds =>
                       /\ ev[p].idx <= ev[q].idx
                       /\ ev[q].ev \in {"load_map", "oracle_map"} /\ ev[p].ev # "load_map" =>
                             ev[p].idx < ev[q].idx
                 /\ ev[p].ev \in ReduceEventKinds => ev[q].ev \in ReduceEventKinds
        /\ \A j \in 1..Len(ev) :
              ev[j].ev \in MapEventKinds =>
                 /\ ev[j].idx + 2 <= cur.i
                 /\ ev[j].idx + 1 <= Len(cur.chunks)
        /\ Len(eventsOfKind(ev, {"oracle_reduce"})) <= 1
        /\ eventsOfKind(ev, ReduceEventKinds) # <<>> =>
              cur.i > Len(cur.chunks) /\ cur.summaries # <<>>
        /\ pc = "reduce" => cur.i > Len(cur.chunks)

C20_Witness ==
    /\ Returned("run")
    /\ Len(eventsOfKind(cur.events, {"oracle_map"})) = 2
    /\ Len(raisedEvents(cur)) = 1
    /\ raisedEvents(cur)[1].idx = 0
    /\ Len(eventsOfKind(cur.events, {"oracle_reduce"})) = 1
    /\ lastEvent(cur).ev = "save_final"

\* chunk has returned the chunks of a text of exactly two paragraphs, both
\* non-empty when trimmed, with one blank line between them
TwoParagraphs ==
    /\ ChunkReturned
    /\ Len(split(cur.arg.text, <<>>)) = 2
    /\ Len(paragraphs(cur.arg.text)) = 2

\* C21 as stated: for two paragraphs p1 and p2, one chunk p1, separator, p2 if
\* len(p1) + len(p2) + 2 <= chunk_size; otherwise chunk 0 = p1 and chunk 1 = the
\* last overlap_size characters of p1, the separator, p2.
C21_Original ==
    TwoParagraphs =>
        LET p1 == paragraphs(cur.arg.text)[1]
            p2 == paragraphs(cur.arg.text)[2]
            texts == [j \in 1..Len(cur.ret) |-> cur.ret[j].text]
        IN  IF Len(p1) + Len(p2) + 2 <= ChunkSize
            THEN texts = << p1 \o <<NL, NL>> \o p2 >>
            ELSE texts = << p1, lastChars(p1, overlap_size) \o <<NL, NL>> \o p2 >>

\* C21 amended: for two paragraphs p1 and p2, one chunk p1, separator, p2 if
\* len(p1) + len(p2) + 2 <= chunk_size; otherwise chunk 0 = p1 and chunk 1 = the
\* last overlap_size characters of p1, the separator and p2, trimmed: whitespace
\* at the head of the overlap is not part of chunk 1.
C21_TwoParagraphs ==
    TwoParagraphs =>
        LET p1 == paragraphs(cur.arg.text)[1]
            p2 == paragraphs(cur.arg.text)[2]
            texts == [j \in 1..Len(cur.ret) |-> cur.ret[j].text]
        IN  IF Len(p1) + Len(p2) + 2 <= ChunkSize
            THEN texts = << p1 \o <<NL, NL>> \o p2 >>
            ELSE texts = << p1, strip(lastChars(p1, overlap_size) \o <<NL, NL>> \o p2) >>

C21_Witness ==
    /\ TwoParagraphs
    /\ cur.arg.text = <<"a", " ", "b", NL, NL, "b", "b">>
    /\ Len(cur.ret) = 2
    /\ cur.ret[2].text = <<"b", NL, NL, "b", "b">>

\* chunk has returned for a text that is not empty but holds nothing except
\* whitespace
WhitespaceOnly ==
    /\ ChunkReturned
    /\ cur.arg.text # <<>>
    /\ paragraphs(cur.arg.text) = <<>>

\* C22: for a non-empty text without a non-empty paragraph chunk returns exactly
\* one chunk, of index 0, whose text is the whole trimmed text, and the chunk
\* file of the document holds that chunk.
C22_WhitespaceOnly ==
    WhitespaceOnly =>
        /\ cur.ret = <<[parent_id |-> cur.arg.doc_id, chunk_index |-> 0,
                        text |-> strip(cur.arg.text)]>>
        /\ chunkStore[cur.arg.doc_id] = storedChunks(cur.ret)

C22_Witness ==
    /\ WhitespaceOnly
    /\ cur.arg.text = <<" ", NL, NL, " ">>
    /\ cur.pre.exists
    /\ Len(cur.ret) = 1
    /\ cur.ret[1].text = <<>>
    /\ chunkStore[cur.arg.doc_id].chunks = cur.ret

\* The length of the longest of the paragraphs ps
RECURSIVE longest(_)
longest(ps) ==
    IF ps = <<>> THEN 0
    ELSE IF Len(Head(ps)) > longest(Tail(ps)) THEN Len(Head(ps)) ELSE longest(Tail(ps))

\* C30: paragraphs are not split (every one is whole in the chunks), every
\* chunk's text is at most max(chunk_size, overlap_size + 2 + L) long, L the
\* length of the longest trimmed paragraph, and a chunk with two or more
\* paragraphs after its overlap prefix is at most chunk_size long.
C30_Length ==
    ChunkReturned =>
        LET L     == longest(paragraphs(cur.arg.text))
            bound == IF ChunkSize > overlap_size + 2 + L
                     THEN ChunkSize ELSE overlap_size + 2 + L
        IN
        /\ remainderParagraphs(cur.ret, 1) = paragraphs(cur.arg.text)
        /\ \A k \in 1..Len(cur.ret) :
              /\ Len(cur.ret[k].text) <= bound
              /\ Len(paragraphs(remainder(cur.ret, k))) >= 2 =>
                    Len(cur.ret[k].text) <= ChunkSize

C30_Witness ==
    /\ ChunkReturned
    /\ Len(cur.ret) = 2
    /\ Len(paragraphs(remainder(cur.ret, 1))) = 2
    /\ Len(cur.ret[1].text) = ChunkSize
    /\ Len(paragraphs(remainder(cur.ret, 2))) = 1
    /\ Len(cur.ret[2].text) > ChunkSize

\* C23: a summary that summarize_chunk or reduce returned (not None) is what the
\* cache entry of its key holds, whether it was read from the cache or obtained
\* from the oracle, blank or not: this is so for every summary a run has
\* collected, for every summary saved without error and for the result reduce
\* gave the run.
C23_Persisted ==
    cur.op = "run" =>
        /\ \A j \in 1..Len(cur.summaries) :
              mapCache[keyOf(cur.summaries[j])] = GoodFile(cur.summaries[j].summary)
        /\ \A j \in 2..Len(cur.events) :
              cur.events[j].ev \in {"save_map", "save_final"} /\ ~cur.events[j].raised =>
                 eventEntry(cur.events[j], mapCache, reduceCache) =
                     GoodFile(strip(cur.events[j - 1].response))
        /\ cur.final_summary # None =>
              reduceCache[normalize(cur.arg.normalizer, cur.arg.raw_data).id] =
                  GoodFile(cur.final_summary[1])

C23_Witness ==
    /\ Returned("run")
    /\ storage = "faulty"
    /\ ~cur.force
    /\ Len(cur.summaries) = 1
    /\ Len(eventsOfKind(cur.events, {"oracle_map"})) = 2
    /\ Len(eventsOfKind(cur.events, {"save_map"})) = 2
    /\ \E j \in 1..Len(cur.events) : cur.events[j].ev = "save_map" /\ cur.events[j].raised
    /\ lastEvent(cur).ev = "load_final"
    /\ cur.final_summary # None

\* The oracle invocations of call c that raised, in Map or in Reduce
oracleFailures(c) == SelectSeq(oracleEvents(c.events), LAMBDA e : e.raises)

\* The call of summarize_chunk or reduce that returns in this step had its
\* oracle invocation raise
OracleRaisedStep ==
    /\ pc = "idle" /\ pc' = "idle"
    /\ cur'.op \in {"summarize_chunk", "reduce"}
    /\ oracleFailures(cur') # <<>>

\* C24: when the oracle raises during summarize_chunk or reduce, with
\* force_rerun True or False, the call returns None and every cache entry, the
\* one of the key asked for included, is left as it was before the call.
C24_OracleFailure ==
    [][OracleRaisedStep =>
          /\ cur'.ret = None
          /\ mapCache' = mapCache
          /\ reduceCache' = reduceCache
          /\ chunkStore' = chunkStore]_vars

C24_Witness ==
    /\ Returned("reduce")
    /\ cur.force
    /\ oracleFailures(cur) # <<>>
    /\ Truthy(load_file(cur.pre))
    /\ reduceCache[cur.arg.doc_id] = cur.pre
    /\ prev.same /\ ~prev.force /\ prev.oracle = 0 /\ Truthy(prev.ret)

\* In this pass of the loop of summarize_chunks with force_rerun=False the
\* cache entry of the chunk holds an empty summary
BlankEntryStep ==
    /\ cur.op = "summarize_chunks" /\ pc = "map" /\ ~cur.force
    /\ cur.i <= Len(cur.chunks)
    /\ cur'.i = cur.i + 1
    /\ mapCache[keyOf(cur.chunks[cur.i])] = GoodFile(<<>>)

\* C25: the list summarize_chunks builds and returns has no entry with an empty
\* summary; a chunk the oracle answered with nothing but whitespace has the
\* empty summary stored in its cache entry and is left out of the list; and a
\* later pass with force_rerun=False over a chunk whose cached summary is empty
\* invokes the oracle for it again.
C25_BlankSummary ==
    [][/\ cur'.op = "summarize_chunks" =>
             /\ \A j \in 1..Len(cur'.summaries) : cur'.summaries[j].summary # <<>>
             /\ \A j \in 1..Len(blankEvents(cur')) :
                   LET e == blankEvents(cur')[j] IN
                   /\ mapCache'[<<e.doc, e.idx>>] = GoodFile(<<>>)
                   /\ \A k \in 1..Len(cur'.summaries) : keyOf(cur'.summaries[k]) # <<e.doc, e.idx>>
       /\ BlankEntryStep =>
             /\ Len(newEvents) >= 2
             /\ newEvents[2].ev = "oracle_map"
             /\ <<newEvents[2].doc, newEvents[2].idx>> = keyOf(cur.chunks[cur.i])
      ]_vars

C25_Witness ==
    /\ Returned("summarize_chunks")
    /\ ~cur.force
    /\ prev.same
    /\ Len(cur.chunks) = 3
    /\ Len(cur.ret) = 2
    /\ Len(oracleEvents(cur.events)) = 1
    /\ Len(raisedEvents(cur)) = 1
    /\ mapCache[<<raisedEvents(cur)[1].doc, raisedEvents(cur)[1].idx>>] = GoodFile(<<>>)

\* The oracle invocations of reduce in call c that answered with nothing but
\* whitespace
blankReduceEvents(c) ==
    SelectSeq(c.events,
              LAMBDA e : e.ev = "oracle_reduce" /\ ~e.raises /\ strip(e.response) = <<>>)

\* C26: what run returns is None or a non-empty text; when the oracle's answer
\* in reduce is empty after trimming, reduce returns the empty text and stores
\* it in the final-summary cache, and the run returns None.
C26_NonEmptyResult ==
    Returned("run") =>
        /\ cur.ret = None \/ cur.ret[1] # <<>>
        /\ ~cur.raised
        /\ blankReduceEvents(cur) # <<>> =>
              /\ cur.final_summary = Some(<<>>)
              /\ reduceCache[normalize(cur.arg.normalizer, cur.arg.raw_data).id] = GoodFile(<<>>)
              /\ cur.ret = None

C26_Witness ==
    /\ Returned("run")
    /\ blankReduceEvents(cur) # <<>>
    /\ cur.summaries # <<>>
    /\ cur.final_summary = Some(<<>>)
    /\ cur.ret = None
    /\ reduceCache[normalize(cur.arg.normalizer, cur.arg.raw_data).id] = GoodFile(<<>>)

\* A run of a pipeline with the default Normalizer has been through Step 3
DefaultNormalizerChunked ==
    /\ cur.op = "run"
    /\ cur.arg.normalizer = "default"
    /\ pc \in {"map", "reduce", "idle"}
    /\ ~cur.raised
    /\ eventsOfKind(cur.events, {"stage_chunk"}) # <<>>
    /\ eventsOfKind(cur.events, {"except"}) = <<>>

\* C29: in a run with the default Normalizer the text handed to the chunker has
\* no line break and no two whitespace characters in a row, the chunker returns
\* exactly one chunk, of index 0 and holding the whole text, for every document
\* whose text is not empty (whatever its length), and the run invokes the oracle
\* at most twice: at most once in Map and at most once in Reduce.
C29_DefaultNormalizer ==
    cur.op = "run" /\ cur.arg.normalizer = "default" =>
        LET normalized == normalize(cur.arg.normalizer, cur.arg.raw_data)
            text       == normalized.text
        IN
        /\ \A j \in 1..Len(text) :
              /\ text[j] # NL
              /\ j < Len(text) /\ text[j] \in Whitespace => text[j + 1] \notin Whitespace
        /\ DefaultNormalizerChunked =>
              cur.chunks = IF text = <<>> THEN <<>>
                           ELSE <<[parent_id |-> normalized.id, chunk_index |-> 0,
                                   text |-> text]>>
        /\ Len(eventsOfKind(cur.events, {"oracle_map"})) <= 1
        /\ Len(eventsOfKind(cur.events, {"oracle_reduce"})) <= 1

C29_Witness ==
    /\ Returned("run")
    /\ cur.arg.normalizer = "default"
    /\ Len(normalize(cur.arg.normalizer, cur.arg.raw_data).text) > ChunkSize
    /\ Len(paragraphs(cur.arg.raw_data.text)) = 2
    /\ Len(cur.chunks) = 1
    /\ Len(oracleEvents(cur.events)) = 2
    /\ cur.ret # None

\* The second run, with force_rerun=False, has returned; the first run on the
\* document, over empty caches, was left without the summary of a chunk and
\* returned a final summary
SecondRunAfterLostChunk ==
    /\ Returned("run")
    /\ ~cur.force
    /\ prev.same
    /\ Truthy(prev.ret)
    /\ ~prev.complete
    /\ eventsOfKind(cur.events, {"except"}) = <<>>

\* C28: when the first run lost a chunk to an oracle failure and still cached a
\* final summary F, the second run with force_rerun=False invokes the oracle
\* again in Map, only for chunks without a summary, caches what it obtains, and
\* returns F from the final-summary cache without invoking the oracle in Reduce,
\* also when it now holds a summary for every chunk.
C28_StaleFinalSummary ==
    SecondRunAfterLostChunk =>
        LET mapCalls == eventsOfKind(cur.events, {"oracle_map"}) IN
        /\ mapCalls # <<>>
        /\ Len(mapCalls) < Len(cur.chunks)
        /\ \A j \in 1..Len(mapCalls) :
              ~mapCalls[j].raises =>
                  mapCache[<<mapCalls[j].doc, mapCalls[j].idx>>] =
                      GoodFile(strip(mapCalls[j].response))
        /\ eventsOfKind(cur.events, {"oracle_reduce"}) = <<>>
        /\ lastEvent(cur).ev = "load_final"
        /\ cur.ret = prev.ret

C28_Witness ==
    /\ SecondRunAfterLostChunk
    /\ prev.oracle = 3
    /\ Len(cur.chunks) = 2
    /\ Len(cur.summaries) = 2
    /\ Len(oracleEvents(cur.events)) = 1
    /\ cur.summaries[1].summary # cur.summaries[2].summary
    /\ cur.ret = prev.ret

\* The texts the chunk of one key can hold when the document's text or the
\* chunker's configuration is changed: those of the chunks callers hand over
\* and others, the empty one among them
OtherChunkTexts == {c.text : c \in ChunkInputs} \cup ParagraphPool

\* summarize_chunk has returned and the entry of its key holds a non-empty summary
EntryCached ==
    /\ Returned("summarize_chunk")
    /\ Truthy(load_file(mapCache[keyOf(cur.arg)]))

\* C27: a call of summarize_chunk with force_rerun=False that found a non-empty
\* summary cached for (parent_id, chunk_index) returned it without invoking the
\* oracle; and once a non-empty summary is cached for the key, summarize_chunk
\* with force_rerun=False returns it, invokes no oracle and writes nothing for a
\* chunk of that key with any text, so that a summary obtained for one text is
\* returned for another.
C27_HitIgnoresContent ==
    /\ Returned("summarize_chunk") /\ ~cur.force /\ Truthy(load_file(cur.pre)) =>
          /\ cur.ret = load_file(cur.pre)
          /\ oracleEvents(cur.events) = <<>>
    /\ EntryCached =>
          \A t \in OtherChunkTexts, o \in Outcomes, w \in WriteResults(storage) :
              LET r == summarize_chunk(mapCache, [cur.arg EXCEPT !.text = t], FALSE, o, w) IN
              /\ r.ret = load_file(mapCache[keyOf(cur.arg)])
              /\ oracleEvents(r.events) = <<>>
              /\ r.cache = mapCache

C27_Witness ==
    /\ EntryCached
    /\ Len(oracleEvents(cur.events)) = 1
    /\ oracleEvents(cur.events)[1].text = cur.arg.text
    /\ cur.ret = load_file(mapCache[keyOf(cur.arg)])
    /\ \E t \in OtherChunkTexts :
          /\ t # cur.arg.text
          /\ summarize_chunk(mapCache, [cur.arg EXCEPT !.text = t], FALSE,
                             [raises |-> FALSE, text |-> <<"x">>], "ok").ret = cur.ret
    /\ cur.ret # Some(<<"x">>)

====
